---- MODULE Spec2Model ----
(***************************************************************************)
(* Model of the dbtester agent (agent/agent.go): the gRPC handler          *)
(* transporterServer.Transfer, the monitoring goroutine it spawns on       *)
(* Start, the upload pass (uploadFunc) with its retry loops, and the       *)
(* 1-slot uploadSig channel between them.  Commands arrive serially.       *)
(***************************************************************************)
EXTENDS FiniteSets, Integers, Sequences, TLC

VARIABLES
    t,           \* the transporterServer struct (req, cmd, logfile, pid, proxy*)
    uploadSig,   \* the buffered channel uploadSig (capacity 1)
    procs,       \* OS process table: procs[p] is "alive" or "gone" (exited and reaped)
    signaled,    \* pids to which syscall.Kill delivered SIGTERM
    files,       \* *os.File handles opened by the agent: "open" or "closed"
    monitorLog,  \* the monitor CSV (monitorLogPath) holds at least one row
    monitors,    \* the monitoring goroutines, in spawn order
    rpc,         \* the Transfer call in flight (position of the handler)
    count,       \* Transfer calls and Start commands so far
    ret,         \* what the last finished Transfer returned
    everTracked, \* pids held in t.pid / t.proxyPid before the last command
    retry,       \* one retry loop of the upload pass: k, calls made, outcome
    pathIn,      \* input of the destination-path derivation
    pathOut,     \* its result
    uploadDir,   \* one call of GoogleCloudStorage.UploadDir and its tasks
    launch,      \* one Start up to the spawn: peers, data directory, flags
    pass         \* one run of uploadFunc, attempt by attempt

vars == << t, uploadSig, procs, signaled, files, monitorLog, monitors, rpc,
           count, ret, everTracked, retry, pathIn, pathOut, uploadDir, launch, pass >>

----------------------------------------------------------------------------
(* Bounds of the exploration *)

MaxCmds == 3          \* Transfer calls per run
MaxStarts == 2        \* Start commands per run
MaxLen == 2           \* length of the names fed to the path derivation
MaxFirstOK == 32      \* latest call at which the uploader first succeeds
MaxFiles == 3         \* files in the directory handed to UploadDir
MaxPeers == 3         \* addresses in the peer list of a Start
MaxExits == 1         \* supervised processes that exit on their own

(* Program constants *)

MaxAttempts == 30     \* for k := 0; k < 30; k++
ChanCap == 1          \* make(chan Request_Operation, 1)

Nil == 0              \* a nil *exec.Cmd / *os.File, and the zero pid

----------------------------------------------------------------------------
(* Strings *)

\* strings.HasPrefix
HasPrefix(s, prefix) ==
    /\ Len(prefix) <= Len(s)
    /\ SubSeq(s, 1, Len(prefix)) = prefix

Digit(d) == SubSeq("0123456789", d + 1, d + 1)

\* fmt.Sprintf("%d", n) for n >= 0
RECURSIVE Itoa(_)
Itoa(n) == IF n < 10 THEN Digit(n) ELSE Itoa(n \div 10) \o Digit(n % 10)

\* filepath.Join(dir, name) for clean elements (no "." or ".." element, no
\* doubled or trailing separator): empty elements are ignored, the rest are
\* joined with "/"
Join(dir, name) ==
    IF dir = "" THEN name
    ELSE IF name = "" THEN dir
    ELSE dir \o "/" \o name
\* DstPath with the server index left out of the name
DstPathNoIndex(subDirectory, testName, serverIndex, base) ==
    LET dst == IF ~HasPrefix(base, testName)
               THEN testName \o "-" \o base
               ELSE base
    IN  Join(subDirectory, dst)

\* the destination name of an artifact, as uploadFunc derives it
DstPath(subDirectory, testName, serverIndex, base) ==
    LET dst == IF ~HasPrefix(base, testName)
               THEN testName \o "-" \o Itoa(serverIndex + 1) \o "-" \o base
               ELSE base
    IN  Join(subDirectory, dst)

----------------------------------------------------------------------------
(* Requests *)

\* t.req.Database == Request_zetcd || t.req.Database == Request_cetcd
HasProxy(db) == db \in {"zetcd", "cetcd"}

\* case Request_etcdv2, Request_etcdv3, Request_zetcd, Request_cetcd
IsEtcd(db) == db \in {"etcdv2", "etcdv3", "zetcd", "cetcd"}

ValidKey == "{jwt}"

\* the zero Request held by a new transporterServer
ZeroRequest ==
    [ Operation |-> "Start", Database |-> "etcdv2", ServerIndex |-> 0,
      TestName |-> "", GoogleCloudStorageKey |-> "",
      GoogleCloudProjectName |-> "", GoogleCloudStorageBucketName |-> "",
      GoogleCloudStorageSubDirectory |-> "" ]

\* the Start commands: a database kind with or without a usable key
StartKinds ==
    { <<"etcdv3", ValidKey>>, <<"Consul", "">>, <<"zetcd", ValidKey>>,
      <<"unknown", ValidKey>> }

StartRequests ==
    { [ Operation |-> "Start", Database |-> dk[1],
        ServerIndex |-> IF HasProxy(dk[1]) THEN 1 ELSE 0,
        TestName |-> IF HasProxy(dk[1]) THEN "agent" ELSE "t",
        GoogleCloudStorageKey |-> dk[2],
        GoogleCloudProjectName |-> "p1",
        GoogleCloudStorageBucketName |-> "b1",
        GoogleCloudStorageSubDirectory |-> "d1" ] : dk \in StartKinds }

\* the UploadLog commands: a destination, and values of their own in the
\* fields that describe the database
UploadLogDests == { <<"p2", "b2", "">> }

UploadLogRequests ==
    { [ Operation |-> "UploadLog", Database |-> "cetcd", ServerIndex |-> 2,
        TestName |-> "u", GoogleCloudStorageKey |-> "other",
        GoogleCloudProjectName |-> d[1],
        GoogleCloudStorageBucketName |-> d[2],
        GoogleCloudStorageSubDirectory |-> d[3] ] : d \in UploadLogDests }

\* the first operation of a Transfer that fails in the environment, if any
Faults == { "none", "toFile", "binary", "proxyBinary", "dataDir", "openLog",
            "spawn", "openProxyLog", "spawnProxy" }

\* NewTransporterServer
NewTransporterServer ==
    [ req |-> ZeroRequest, cmd |-> Nil, logfile |-> Nil, pid |-> Nil,
      proxyCmd |-> Nil, proxyLogfile |-> Nil, proxyPid |-> Nil ]

\* the process ids Controller State tracks: one per non-nil command handle
TrackedPids(ts) ==
    (IF ts.cmd # Nil THEN {ts.pid} ELSE {}) \cup
    (IF ts.proxyCmd # Nil THEN {ts.proxyPid} ELSE {})

\* every pid stored in the struct, handle or not
StoredPids(ts) == {ts.pid, ts.proxyPid} \ {Nil}

----------------------------------------------------------------------------
(* Transfer: the request merge and the key file *)
\* MergeRequest with UploadLog storing the whole request, as Start does
MergeRequestWhole(ts, r) ==
    IF r.Operation \in {"Start", "UploadLog"} THEN [ts EXCEPT !.req = r]
    ELSE ts

\* switch r.Operation { case Request_Start: ...; case Request_UploadLog: ... }
MergeRequest(ts, r) ==
    IF r.Operation = "Start" THEN [ts EXCEPT !.req = r]
    ELSE IF r.Operation = "UploadLog" THEN
        [ts EXCEPT !.req.GoogleCloudProjectName = r.GoogleCloudProjectName,
                   !.req.GoogleCloudStorageBucketName = r.GoogleCloudStorageBucketName,
                   !.req.GoogleCloudStorageSubDirectory = r.GoogleCloudStorageSubDirectory]
    ELSE ts

\* if t.req.GoogleCloudStorageKey != "" { if err := toFile(...) { return nil, err } }
KeyFileFails(ts, fault) ==
    ts.req.GoogleCloudStorageKey # "" /\ fault = "toFile"

----------------------------------------------------------------------------
(* Transfer: case Request_Start *)

\* the error values of Transfer, by kind
NoErr == ""
ErrIO == "io"             \* toFile, os.RemoveAll, openToAppend
ErrConfig == "config"     \* a binary does not exist, unknown database
ErrSpawn == "spawn"       \* (*exec.Cmd).Start
ErrNilCommand == "nil command"
ErrNoProcess == "ESRCH"   \* syscall.Kill on a pid that does not exist
ErrNotImplemented == "not implemented"

\* the state a Start leaves, its error, and the primary it spawned
StartResult(err, ts, ps, fs, spawned) ==
    [ ok |-> err = NoErr, err |-> err, t |-> ts, procs |-> ps, files |-> fs,
      spawned |-> spawned ]

\* the companion proxy of zetcd / cetcd
StartProxy(ts, ps, fs, fault, primary) ==
    IF fault = "openProxyLog" THEN StartResult(ErrIO, ts, ps, fs, primary)
    ELSE
      LET f2 == Len(fs) + 1
          fs2 == Append(fs, "open")
          t2 == [ts EXCEPT !.proxyLogfile = f2]
      IN  IF fault = "spawnProxy" THEN StartResult(ErrSpawn, t2, ps, fs2, primary)
          ELSE
            LET p2 == Len(ps) + 1
            IN  StartResult(NoErr,
                            [t2 EXCEPT !.proxyCmd = p2, !.proxyPid = p2],
                            Append(ps, "alive"), fs2, primary)
\* StartPrimary with t.pid set only while no pid is stored yet
StartPrimaryKeepsPid(ts, ps, fs, fault) ==
    IF fault = "openLog" THEN StartResult(ErrIO, ts, ps, fs, Nil)
    ELSE
      LET f == Len(fs) + 1
          fs1 == Append(fs, "open")
          t1 == [ts EXCEPT !.logfile = f]
      IN  IF fault = "spawn" THEN StartResult(ErrSpawn, t1, ps, fs1, Nil)
          ELSE
            LET p == Len(ps) + 1
                t2 == [t1 EXCEPT !.cmd = p,
                                 !.pid = IF ts.pid # Nil THEN ts.pid ELSE p]
                ps1 == Append(ps, "alive")
            IN  IF HasProxy(t2.req.Database)
                THEN StartProxy(t2, ps1, fs1, fault, p)
                ELSE StartResult(NoErr, t2, ps1, fs1, p)

\* openToAppend(databaseLogPath), exec.Command(...).Start(), t.cmd / t.pid
StartPrimary(ts, ps, fs, fault) ==
    IF fault = "openLog" THEN StartResult(ErrIO, ts, ps, fs, Nil)
    ELSE
      LET f == Len(fs) + 1
          fs1 == Append(fs, "open")
          t1 == [ts EXCEPT !.logfile = f]
      IN  IF fault = "spawn" THEN StartResult(ErrSpawn, t1, ps, fs1, Nil)
          ELSE
            LET p == Len(ps) + 1
                t2 == [t1 EXCEPT !.cmd = p, !.pid = p]
                ps1 == Append(ps, "alive")
            IN  IF HasProxy(t2.req.Database)
                THEN StartProxy(t2, ps1, fs1, fault, p)
                ELSE StartResult(NoErr, t2, ps1, fs1, p)

\* switch t.req.Database, after the request merge and the key file
StartDatabase(ts, ps, fs, fault) ==
    LET db == ts.req.Database
    IN  IF IsEtcd(db) THEN
            IF fault = "binary" THEN StartResult(ErrConfig, ts, ps, fs, Nil)
            ELSE IF HasProxy(db) /\ fault = "proxyBinary"
                 THEN StartResult(ErrConfig, ts, ps, fs, Nil)
            ELSE IF fault = "dataDir" THEN StartResult(ErrIO, ts, ps, fs, Nil)
            ELSE StartPrimary(ts, ps, fs, fault)
        ELSE IF db \in {"ZooKeeper", "Consul"} THEN
            IF fault = "binary" THEN StartResult(ErrConfig, ts, ps, fs, Nil)
            ELSE IF fault = "dataDir" THEN StartResult(ErrIO, ts, ps, fs, Nil)
            ELSE StartPrimary(ts, ps, fs, fault)
        ELSE StartResult(ErrConfig, ts, ps, fs, Nil)

\* Transfer for r.Operation == Request_Start, up to the spawn of the monitor
StartBody(ts, ps, fs, r, fault) ==
    LET t1 == MergeRequest(ts, r)
    IN  IF KeyFileFails(t1, fault) THEN StartResult(ErrIO, t1, ps, fs, Nil)
        ELSE StartDatabase(t1, ps, fs, fault)

----------------------------------------------------------------------------
(* Transfer: case Request_Stop *)

\* syscall.Kill(pid, SIGTERM) fails with ESRCH when no such process exists
KillFails(ps, p) == ps[p] = "gone"

\* (*os.File).Close
Close(fs, f) == [fs EXCEPT ![f] = "closed"]

\* the events of a Stop / UploadLog handler and of the upload pass it
\* triggers, in the order they happen
Ev(kind, x) == << kind, x >>

ArtifactNo(art) ==
    CASE art = "db" -> 1 [] art = "proxy" -> 2 [] art = "monitor" -> 3
      [] art = "agent" -> 4

StopResult(err, sg, fs, trace) ==
    [ ok |-> err = NoErr, err |-> err, signaled |-> sg, files |-> fs,
      trace |-> trace ]

\* the proxy half of Stop: signal the proxy, close its log
StopProxy(ts, ps, sg, fs, trace) ==
    IF ts.proxyCmd # Nil /\ KillFails(ps, ts.proxyPid)
    THEN StopResult(ErrNoProcess, sg, fs, trace)
    ELSE
      LET sg2 == IF ts.proxyCmd # Nil THEN sg \cup {ts.proxyPid} ELSE sg
          tr2 == IF ts.proxyCmd # Nil THEN Append(trace, Ev("kill", ts.proxyPid)) ELSE trace
      IN  IF ts.proxyLogfile # Nil
          THEN StopResult(NoErr, sg2, Close(fs, ts.proxyLogfile),
                          Append(tr2, Ev("close", ts.proxyLogfile)))
          ELSE StopResult(NoErr, sg2, fs, tr2)
\* StopBody with the engine log left open until after the send
StopBodyLateClose(ts, ps, sg, fs) ==
    LET tr0 == << Ev("sleep", 0) >>
    IN  IF ts.cmd = Nil THEN StopResult(ErrNilCommand, sg, fs, tr0)
        ELSE IF KillFails(ps, ts.pid) THEN StopResult(ErrNoProcess, sg, fs, tr0)
        ELSE StopProxy(ts, ps, sg \cup {ts.pid}, fs,
                       Append(tr0, Ev("kill", ts.pid)))

\* Transfer for r.Operation == Request_Stop, up to the send on uploadSig
StopBody(ts, ps, sg, fs) ==
    LET tr0 == << Ev("sleep", 0) >>
    IN  IF ts.cmd = Nil THEN StopResult(ErrNilCommand, sg, fs, tr0)
        ELSE IF KillFails(ps, ts.pid) THEN StopResult(ErrNoProcess, sg, fs, tr0)
        ELSE
          LET sg1 == sg \cup {ts.pid}
              tr1 == Append(tr0, Ev("kill", ts.pid))
          IN  IF ts.logfile # Nil
              THEN StopProxy(ts, ps, sg1, Close(fs, ts.logfile),
                             Append(tr1, Ev("close", ts.logfile)))
              ELSE StopProxy(ts, ps, sg1, fs, tr1)

----------------------------------------------------------------------------
(* The upload pass *)

\* remotestorage.NewGoogleCloudStorage: the key must parse as a JWT config
NewGoogleCloudStorageFails(key) == key # ValidKey

\* filepath.Base of the artifact's local path
BaseName(art, db) ==
    CASE art = "db" -> "database.log"
      [] art = "proxy" -> "database.log-" \o db
      [] art = "monitor" -> "monitor.csv"
      [] art = "agent" -> "agent.log"

\* the artifact uploadFunc turns to after art
NextArtifact(art, db) ==
    CASE art = "db" -> IF HasProxy(db) THEN "proxy" ELSE "monitor"
      [] art = "proxy" -> "monitor"
      [] art = "monitor" -> "agent"
      [] art = "agent" -> "end"

\* no retry loop under study
NoRetry == [ pc |-> "none", firstOK |-> 0, k |-> 0, fails |-> 0, oks |-> 0 ]

----------------------------------------------------------------------------
(* Initial state *)

\* what a Stop / UploadLog found tracked when it was handled
Had(ts) == [ pids |-> TrackedPids(ts), logfile |-> ts.logfile,
             proxyLogfile |-> ts.proxyLogfile ]

NoCall == [ pc |-> "idle", op |-> "none", id |-> 0, trace |-> << >>,
            had |-> Had(NewTransporterServer), mon |-> 0,
            r |-> ZeroRequest ]
NoReturn == [ op |-> "none", id |-> 0, ok |-> FALSE, err |-> "",
              spawned |-> Nil, r |-> ZeroRequest ]
NoPath == [ sub |-> "", test |-> "", idx |-> 0, base |-> "" ]
NoDst == [ done |-> FALSE, dst |-> "" ]
NoDir == [ pc |-> "none" ]
NoLaunch == [ pc |-> "none" ]
NoPass == [ pc |-> "none" ]

\* the agent after NewTransporterServer, before any Transfer
InitAgent ==
    /\ t = NewTransporterServer
    /\ uploadSig = << >>
    /\ procs = << >>
    /\ signaled = {}
    /\ files = << >>
    /\ monitorLog = FALSE
    /\ monitors = << >>
    /\ rpc = NoCall
    /\ count = [ cmds |-> 0, starts |-> 0 ]
    /\ ret = NoReturn
    /\ everTracked = {}

Init ==
    /\ InitAgent
    /\ retry = NoRetry
    /\ pathIn = NoPath
    /\ pathOut = NoDst
    /\ uploadDir = NoDir
    /\ launch = NoLaunch
    /\ pass = NoPass

agentVars == << t, uploadSig, procs, signaled, files, monitorLog, monitors,
               rpc, count, ret, everTracked >>

pureVars == << retry, pathIn, pathOut, uploadDir, launch, pass >>

----------------------------------------------------------------------------
(* Transfer *)

\* a goroutine that has returned
Exited(mon) ==
    [ pid |-> mon.pid, run |-> mon.run, pc |-> "done", us |-> "none",
      art |-> "none", sig |-> 0, trace |-> << >>,
      had |-> Had(NewTransporterServer) ]

\* the processes a Start that succeeded has spawned
SpawnedBy(ts) ==
    {ts.pid} \cup (IF HasProxy(ts.req.Database) THEN {ts.proxyPid} ELSE {})

\* go func(pid int) { ... }(pidToMonitor); run is the set of processes
\* spawned by the Start that spawns the goroutine
NewMonitor(p, run) ==
    [ pid |-> p, run |-> run, pc |-> "init", us |-> "none", art |-> "none",
      sig |-> 0, trace |-> << >>, had |-> Had(NewTransporterServer) ]

\* the answer of a Transfer; r is kept for UploadLog commands only
Return(op, id, err, spawned, r) ==
    [ op |-> op, id |-> id, ok |-> err = NoErr, err |-> err,
      spawned |-> spawned, r |-> r ]

\* a Start command: the whole handler, including the spawn of the monitor
TransferStart(r, fault) ==
    /\ rpc.pc = "idle"
    /\ count.cmds < MaxCmds
    /\ count.starts < MaxStarts
    /\ LET res == StartBody(t, procs, files, r, fault)
           id == count.cmds + 1
       IN  /\ t' = res.t
           /\ procs' = res.procs
           /\ files' = res.files
           /\ monitors' = IF res.ok
                          THEN Append(monitors,
                                      NewMonitor(res.t.pid, SpawnedBy(res.t)))
                          ELSE monitors
           /\ ret' = Return("Start", id, res.err, res.spawned, ZeroRequest)
           /\ count' = [count EXCEPT !.cmds = id, !.starts = @ + 1]
    /\ everTracked' = everTracked \cup StoredPids(t)
    /\ UNCHANGED << uploadSig, signaled, monitorLog, rpc, pureVars >>

\* a Transfer call that has got past the key file and is in its
\* time.Sleep(3 * time.Second)
Sleeping(op, id, r) ==
    [ pc |-> "sleep", op |-> op, id |-> id, trace |-> << >>,
      had |-> Had(NewTransporterServer), mon |-> 0, r |-> r ]

\* a Stop command up to its sleep (or the error of the key file)
TransferStop(fault) ==
    /\ rpc.pc = "idle"
    /\ count.cmds < MaxCmds
    /\ fault \in {"none", "toFile"}
    /\ LET id == count.cmds + 1
       IN  /\ count' = [count EXCEPT !.cmds = id]
           /\ IF KeyFileFails(t, fault)
              THEN /\ ret' = Return("Stop", id, ErrIO, Nil, ZeroRequest)
                   /\ UNCHANGED rpc
              ELSE /\ rpc' = Sleeping("Stop", id, ZeroRequest)
                   /\ UNCHANGED ret
    /\ everTracked' = everTracked \cup StoredPids(t)
    /\ UNCHANGED << t, uploadSig, procs, signaled, files, monitorLog, monitors,
                    pureVars >>

\* the Stop after its sleep, up to its send on uploadSig (or its error
\* return)
StopAfterSleep ==
    /\ rpc.pc = "sleep" /\ rpc.op = "Stop"
    /\ LET res == StopBody(t, procs, signaled, files)
       IN  /\ signaled' = res.signaled
           /\ files' = res.files
           /\ IF res.ok
              THEN /\ rpc' = [rpc EXCEPT !.pc = "send", !.trace = res.trace,
                                         !.had = Had(t),
                                         !.mon = Len(monitors)]
                   /\ UNCHANGED ret
              ELSE /\ ret' = Return("Stop", rpc.id, res.err, Nil, ZeroRequest)
                   /\ rpc' = NoCall
    /\ UNCHANGED << t, uploadSig, procs, monitorLog, monitors, count,
                    everTracked, pureVars >>

\* an UploadLog command up to its sleep (or the error of the key file)
TransferUploadLog(r, fault) ==
    /\ rpc.pc = "idle"
    /\ count.cmds < MaxCmds
    /\ fault \in {"none", "toFile"}
    /\ LET id == count.cmds + 1
           t1 == MergeRequest(t, r)
       IN  /\ count' = [count EXCEPT !.cmds = id]
           /\ t' = t1
           /\ IF KeyFileFails(t1, fault)
              THEN /\ ret' = Return("UploadLog", id, ErrIO, Nil, r)
                   /\ UNCHANGED rpc
              ELSE /\ rpc' = Sleeping("UploadLog", id, r)
                   /\ UNCHANGED ret
    /\ everTracked' = everTracked \cup StoredPids(t)
    /\ UNCHANGED << uploadSig, procs, signaled, files, monitorLog, monitors,
                    pureVars >>

\* the UploadLog after its sleep: if t.logfile != nil { t.logfile.Sync() },
\* up to its send on uploadSig
UploadLogAfterSleep ==
    /\ rpc.pc = "sleep" /\ rpc.op = "UploadLog"
    /\ rpc' = [rpc EXCEPT
                 !.pc = "send",
                 !.trace = IF t.logfile # Nil
                           THEN << Ev("sleep", 0), Ev("sync", 0) >>
                           ELSE << Ev("sleep", 0) >>,
                 !.had = Had(t),
                 !.mon = Len(monitors)]
    /\ UNCHANGED << t, uploadSig, procs, signaled, files, monitorLog, monitors, count,
                    ret, everTracked, pureVars >>

\* a command whose Operation is none of Start, Stop, UploadLog: nothing is
\* merged, the key file is written, then the default branch returns
TransferOther(fault) ==
    /\ rpc.pc = "idle"
    /\ count.cmds < MaxCmds
    /\ fault \in {"none", "toFile"}
    /\ LET id == count.cmds + 1
       IN  /\ count' = [count EXCEPT !.cmds = id]
           /\ ret' = Return("Other", id,
                            IF KeyFileFails(t, fault) THEN ErrIO
                            ELSE ErrNotImplemented,
                            Nil, ZeroRequest)
    /\ everTracked' = everTracked \cup StoredPids(t)
    /\ UNCHANGED << t, uploadSig, procs, signaled, files, monitorLog, monitors, rpc,
                    pureVars >>

\* uploadSig <- r.Operation, then "transfer success"
SendUploadSig ==
    /\ rpc.pc = "send"
    /\ Len(uploadSig) < ChanCap
    /\ uploadSig' = Append(uploadSig,
                           [ op |-> rpc.op, id |-> rpc.id,
                             trace |-> Append(rpc.trace, Ev("send", 0)),
                             had |-> rpc.had, mon |-> rpc.mon ])
    /\ ret' = Return(rpc.op, rpc.id, NoErr, Nil, rpc.r)
    /\ rpc' = NoCall
    /\ UNCHANGED << t, procs, signaled, files, monitorLog, monitors, count, everTracked,
                    pureVars >>

----------------------------------------------------------------------------
(* The monitoring goroutine *)

\* rFunc: process.List of the pid, then the open of the monitor CSV for
\* append, then WriteToCSV; each of the three can fail
SampleFaults == {"none", "openToAppend", "WriteToCSV"}
rFuncFails(p, fault) == procs[p] = "gone" \/ fault # "none"

\* the goroutine registers its notifier and takes the first sample, which
\* appends a row to the monitor CSV; it returns if that sample fails
MonitorInit(m, fault) ==
    /\ monitors[m].pc = "init"
    /\ monitors' = [monitors EXCEPT ![m] =
          IF rFuncFails(monitors[m].pid, fault)
          THEN Exited(@)
          ELSE [@ EXCEPT !.pc = "loop"]]
    /\ monitorLog' = (monitorLog \/ ~rFuncFails(monitors[m].pid, fault))
    /\ UNCHANGED << t, uploadSig, procs, signaled, files, rpc, count, ret,
                    everTracked, pureVars >>

\* case <-time.After(time.Second): a row goes to the monitor CSV, or the
\* error is logged; the loop continues either way
MonitorSample(m) ==
    /\ monitors[m].pc = "loop"
    /\ monitorLog' \in { monitorLog \/ ~rFuncFails(monitors[m].pid, fault) :
                          fault \in SampleFaults }
    /\ UNCHANGED << t, uploadSig, procs, signaled, files, monitors, rpc, count,
                    ret, everTracked, pureVars >>

\* case us := <-uploadSig, and uploadFunc up to the first UploadFile call of
\* the retry loop of the database log.  While pc is "upload" the goroutine
\* is inside the retry loop of art, in its calls and the sleeps between
\* them.
MonitorReceive(m) ==
    /\ monitors[m].pc = "loop"
    /\ uploadSig # << >>
    /\ LET s == Head(uploadSig)
       IN  monitors' = [monitors EXCEPT ![m] =
              IF NewGoogleCloudStorageFails(t.req.GoogleCloudStorageKey)
              THEN Exited(@)
              ELSE [@ EXCEPT !.pc = "upload", !.us = s.op, !.sig = s.id,
                             !.art = "db", !.had = s.had,
                             !.trace = s.trace \o << Ev("pass", 0),
                                                    Ev("upload", 1) >>]]
    /\ uploadSig' = Tail(uploadSig)
    /\ UNCHANGED << t, procs, signaled, files, monitorLog, rpc, count, ret, everTracked,
                    pureVars >>

\* the retry loop of art exits (its outcome is only logged) and uploadFunc
\* runs on to the first UploadFile call of the next retry loop, past a
\* proxy log that does not exist; after the last loop the select loop
\* continues (UploadLog) or the goroutine returns (Stop)
MonitorUpload(m, exists) ==
    /\ monitors[m].pc = "upload"
    /\ LET after == NextArtifact(monitors[m].art, t.req.Database)
           nxt == IF after = "proxy" /\ ~exists THEN "monitor" ELSE after
       IN  monitors' = [monitors EXCEPT ![m] =
                IF nxt # "end"
                THEN [@ EXCEPT !.art = nxt,
                               !.trace = Append(@, Ev("upload",
                                                      ArtifactNo(nxt)))]
                ELSE IF monitors[m].us = "UploadLog"
                     THEN [@ EXCEPT !.pc = "loop", !.us = "none", !.art = "none",
                                    !.sig = 0, !.trace = << >>,
                                    !.had = Had(NewTransporterServer)]
                     ELSE Exited(@)]
    /\ UNCHANGED << t, uploadSig, procs, signaled, files, monitorLog, rpc, count, ret,
                    everTracked, pureVars >>

\* MonitorInterrupted with a last upload pass before the goroutine returns
MonitorInterruptedUploads(m) ==
    /\ monitors[m].pc = "loop"
    /\ monitors' = [monitors EXCEPT ![m] =
          [@ EXCEPT !.pc = "upload", !.us = "Stop", !.art = "db",
                    !.trace = << Ev("pass", 0), Ev("upload", 1) >>]]
    /\ UNCHANGED << t, uploadSig, procs, signaled, files, monitorLog, rpc, count, ret,
                    everTracked, pureVars >>

\* case sig := <-notifier: a SIGINT / SIGTERM that reached the agent after
\* the goroutine registered its notifier is on the notifier channel
MonitorInterrupted(m) ==
    /\ monitors[m].pc = "loop"
    /\ monitors' = [monitors EXCEPT ![m] = Exited(@)]
    /\ UNCHANGED << t, uploadSig, procs, signaled, files, monitorLog, rpc, count, ret,
                    everTracked, pureVars >>

----------------------------------------------------------------------------
(* The environment *)

\* a supervised process exits and its waiter goroutine reaps it
ProcessExit(p) ==
    /\ procs[p] = "alive"
    /\ Cardinality({q \in DOMAIN procs : procs[q] = "gone"}) < MaxExits
    /\ procs' = [procs EXCEPT ![p] = "gone"]
    /\ UNCHANGED << t, uploadSig, signaled, files, monitorLog, monitors, rpc, count, ret,
                    everTracked, pureVars >>

----------------------------------------------------------------------------
(* Specifications *)

Transfer ==
    \/ \E r \in StartRequests, fault \in Faults : TransferStart(r, fault)
    \/ \E fault \in Faults : TransferStop(fault)
    \/ \E r \in UploadLogRequests, fault \in Faults : TransferUploadLog(r, fault)
    \/ \E fault \in Faults : TransferOther(fault)
    \/ StopAfterSleep
    \/ UploadLogAfterSleep
    \/ SendUploadSig

Monitor(m) ==
    \/ \E fault \in SampleFaults : MonitorInit(m, fault)
    \/ MonitorSample(m)
    \/ MonitorReceive(m)
    \/ \E exists \in BOOLEAN : MonitorUpload(m, exists)
    \/ MonitorInterrupted(m)

Next ==
    \/ Transfer
    \/ \E m \in DOMAIN monitors : Monitor(m)
    \/ \E p \in DOMAIN procs : ProcessExit(p)

Spec == Init /\ [][Next]_vars

\* the Go scheduler runs every runnable goroutine: a handler wakes from its
\* sleep and reaches its send, and a monitoring goroutine takes its first
\* sample, receives from uploadSig when a signal is there and leaves each
\* retry loop of its upload pass (a loop makes at most 30 calls).  Nothing
\* makes a SIGINT / SIGTERM arrive.
FairSpec ==
    /\ Spec
    /\ WF_vars(StopAfterSleep)
    /\ WF_vars(UploadLogAfterSleep)
    /\ WF_vars(SendUploadSig)
    /\ \A m \in 1..MaxStarts :
          /\ WF_vars(m \in DOMAIN monitors
                       /\ \E fault \in SampleFaults : MonitorInit(m, fault))
          /\ WF_vars(m \in DOMAIN monitors /\ MonitorReceive(m))
          /\ WF_vars(m \in DOMAIN monitors
                       /\ \E exists \in BOOLEAN : MonitorUpload(m, exists))

----------------------------------------------------------------------------
(* The retry loop of uploadFunc on its own:                                *)
(*   for k := 0; k < 30; k++ {                                             *)
(*       if uerr = u.UploadFile(...); uerr != nil { sleep; continue }      *)
(*       else { break } }                                                  *)
(* against an uploader whose first successful call is call number firstOK  *)

InitRetry ==
    /\ InitAgent
    /\ pathIn = NoPath
    /\ pathOut = NoDst
    /\ uploadDir = NoDir
    /\ launch = NoLaunch
    /\ pass = NoPass
    /\ retry \in { [ pc |-> "loop", firstOK |-> n, k |-> 0, fails |-> 0,
                     oks |-> 0 ] : n \in 1..MaxFirstOK }

\* the outcome of the next u.UploadFile call
UploadFileFails(r) == r.fails + r.oks + 1 < r.firstOK
\* RetryStep with a continue where the loop has its break
RetryStepNoBreak ==
    /\ retry.pc = "loop"
    /\ retry' =
         IF retry.k < MaxAttempts
         THEN IF UploadFileFails(retry)
              THEN [retry EXCEPT !.fails = @ + 1, !.k = @ + 1]
              ELSE [retry EXCEPT !.oks = @ + 1, !.k = @ + 1]
         ELSE [retry EXCEPT !.pc = "exit"]
    /\ UNCHANGED << agentVars, pathIn, pathOut, uploadDir, launch, pass >>

\* one evaluation of the loop condition and, if it holds, of the loop body
RetryStep ==
    /\ retry.pc = "loop"
    /\ retry' =
         IF retry.k < MaxAttempts
         THEN IF UploadFileFails(retry)
              THEN [retry EXCEPT !.fails = @ + 1, !.k = @ + 1]
              ELSE [retry EXCEPT !.oks = @ + 1, !.pc = "exit"]
         ELSE [retry EXCEPT !.pc = "exit"]
    /\ UNCHANGED << agentVars, pathIn, pathOut, uploadDir, launch, pass >>

NextRetry == RetryStep

SpecRetry == InitRetry /\ [][NextRetry]_vars

----------------------------------------------------------------------------
(* The destination-path derivation on its own *)

Alphabet == {"a", "-", "1"}

RECURSIVE Names(_)
Names(n) ==
    IF n = 0 THEN {""}
    ELSE LET S == Names(n - 1) IN S \cup { x \o c : x \in S, c \in Alphabet }

PathTestNames == Names(MaxLen)
PathBaseNames == Names(MaxLen) \ {""}
PathIndexes == {0, 1, 10}
PathSubDirectories == {"", "d"}

InitPath ==
    /\ InitAgent
    /\ retry = NoRetry
    /\ pathOut = NoDst
    /\ uploadDir = NoDir
    /\ launch = NoLaunch
    /\ pass = NoPass
    /\ pathIn \in { [ sub |-> d, test |-> n, idx |-> i, base |-> b ] :
                    d \in PathSubDirectories, n \in PathTestNames,
                    i \in PathIndexes, b \in PathBaseNames }

DerivePath ==
    /\ ~pathOut.done
    /\ pathOut' = [ done |-> TRUE,
                    dst |-> DstPath(pathIn.sub, pathIn.test, pathIn.idx,
                                    pathIn.base) ]
    /\ UNCHANGED << agentVars, retry, pathIn, uploadDir, launch, pass >>

NextPath == DerivePath

SpecPath == InitPath /\ [][NextPath]_vars

----------------------------------------------------------------------------
(* remotestorage: GoogleCloudStorage.UploadDir on its own.  donec and     *)
(* errc are unbuffered: a task's send and the caller's receive are one     *)
(* step.                                                                   *)

\* what the call meets before it spawns its tasks: a nil receiver, a failure
\* of storage.NewClient, of bkt.Create (the error of a bucket the project
\* already owns is passed over) or of walkRecursive
EnterFaults == { "none", "g == nil", "NewClient", "Create", "owned", "walk" }

\* the faults that make UploadDir return before the walk has given its files
EnterFails(pre) == pre \in { "g == nil", "NewClient", "Create", "walk" }

\* the error of such a return
EnterErr(pre) == << pre, 0 >>

\* the operation of a file's upload task that fails, if any
FileFaults == { "none", "read", "write", "close" }

\* the error a failing task sends on errc
TaskErr(i, fault) == << fault, i >>

NilErr == << "nil", 0 >>

InitUploadDir ==
    /\ InitAgent
    /\ retry = NoRetry
    /\ pathIn = NoPath
    /\ pathOut = NoDst
    /\ launch = NoLaunch
    /\ pass = NoPass
    /\ \E n \in 0..MaxFiles :
          uploadDir \in { [ pc |-> "enter", pre |-> e, fmap |-> f,
                            tasks |-> << >>, cnt |-> 0, recv |-> {},
                            err |-> NilErr ] :
                          e \in EnterFaults, f \in [1..n -> FileFaults] }

\* from the nil check to walkRecursive: the call returns the first error it
\* meets, or goes on to spawn its tasks
EnterUploadDir ==
    /\ uploadDir.pc = "enter"
    /\ uploadDir' = IF EnterFails(uploadDir.pre)
                    THEN [uploadDir EXCEPT !.pc = "returned",
                                           !.err = EnterErr(uploadDir.pre)]
                    ELSE [uploadDir EXCEPT !.pc = "spawn"]
    /\ UNCHANGED << agentVars, retry, pathIn, pathOut, launch, pass >>

\* for fpath := range fmap { go func(fpath string) { ... }(fpath) }
SpawnTasks ==
    /\ uploadDir.pc = "spawn"
    /\ uploadDir' = IF Len(uploadDir.tasks) < Len(uploadDir.fmap)
              THEN [uploadDir EXCEPT !.tasks = Append(@, "run")]
              ELSE [uploadDir EXCEPT !.pc = "loop"]
    /\ UNCHANGED << agentVars, retry, pathIn, pathOut, launch, pass >>

\* a task has read its file, written the object and closed the writer, and
\* arrives at its send: errc <- err on the first failure, else donec <- {}
TaskUpload(i) ==
    /\ uploadDir.pc \in { "spawn", "loop", "returned" }
    /\ i \in DOMAIN uploadDir.tasks
    /\ uploadDir.tasks[i] = "run"
    /\ uploadDir' = [uploadDir EXCEPT !.tasks[i] =
                  IF uploadDir.fmap[i] # "none" THEN "errc" ELSE "donec"]
    /\ UNCHANGED << agentVars, retry, pathIn, pathOut, launch, pass >>
\* ReceiveErr with the error counted as a completion
ReceiveErrCounted(i) ==
    /\ uploadDir.pc = "loop"
    /\ uploadDir.cnt # Len(uploadDir.fmap)
    /\ i \in DOMAIN uploadDir.tasks
    /\ uploadDir.tasks[i] = "errc"
    /\ uploadDir' = [uploadDir EXCEPT !.tasks[i] = "end", !.recv = @ \cup {i},
                          !.cnt = @ + 1]
    /\ UNCHANGED << agentVars, retry, pathIn, pathOut, launch, pass >>

\* for cnt != num { select { ... case err := <-errc: return err } }
ReceiveErr(i) ==
    /\ uploadDir.pc = "loop"
    /\ uploadDir.cnt # Len(uploadDir.fmap)
    /\ i \in DOMAIN uploadDir.tasks
    /\ uploadDir.tasks[i] = "errc"
    /\ uploadDir' = [uploadDir EXCEPT !.tasks[i] = "end", !.recv = @ \cup {i},
                          !.pc = "returned",
                          !.err = TaskErr(i, uploadDir.fmap[i])]
    /\ UNCHANGED << agentVars, retry, pathIn, pathOut, launch, pass >>

\* for cnt != num { select { case <-donec: ... }; cnt++ }
ReceiveDone(i) ==
    /\ uploadDir.pc = "loop"
    /\ uploadDir.cnt # Len(uploadDir.fmap)
    /\ i \in DOMAIN uploadDir.tasks
    /\ uploadDir.tasks[i] = "donec"
    /\ uploadDir' = [uploadDir EXCEPT !.tasks[i] = "end", !.recv = @ \cup {i},
                          !.cnt = @ + 1]
    /\ UNCHANGED << agentVars, retry, pathIn, pathOut, launch, pass >>

\* the loop condition fails: return nil
ReturnNil ==
    /\ uploadDir.pc = "loop"
    /\ uploadDir.cnt = Len(uploadDir.fmap)
    /\ uploadDir' = [uploadDir EXCEPT !.pc = "returned", !.err = NilErr]
    /\ UNCHANGED << agentVars, retry, pathIn, pathOut, launch, pass >>

NextUploadDir ==
    \/ EnterUploadDir
    \/ SpawnTasks
    \/ \E i \in 1..MaxFiles : TaskUpload(i)
    \/ \E i \in 1..MaxFiles : ReceiveErr(i)
    \/ \E i \in 1..MaxFiles : ReceiveDone(i)
    \/ ReturnNil

SpecUploadDir == InitUploadDir /\ [][NextUploadDir]_vars

\* the caller is scheduled, and receives when a task is at its send.
\* Nothing makes the reads and writes of a task come to an end.
FairUploadDir ==
    /\ SpecUploadDir
    /\ WF_vars(EnterUploadDir) /\ WF_vars(SpawnTasks) /\ WF_vars(ReturnNil)
    /\ WF_vars(\E i \in 1..MaxFiles : ReceiveErr(i) \/ ReceiveDone(i))

----------------------------------------------------------------------------
(* uploadFunc on its own, after the uploader has been constructed: the     *)
(* four artifacts and their retry loops, one UploadFile call per step,     *)
(* against an uploader that first succeeds for an artifact at call number  *)
(* firstOK of that artifact                                                *)

Artifacts == { "db", "proxy", "monitor", "agent" }

PassDatabases == { "etcdv3", "zetcd", "cetcd" }
PassFirstOKs == { 1, MaxAttempts, MaxAttempts + 1 }

InitPass ==
    /\ InitAgent
    /\ retry = NoRetry
    /\ pathIn = NoPath
    /\ pathOut = NoDst
    /\ uploadDir = NoDir
    /\ launch = NoLaunch
    /\ pass \in { [ pc |-> "pass", db |-> d, exists |-> e, firstOK |-> f,
                     art |-> "db", k |-> 0,
                     calls |-> [a \in Artifacts |-> 0],
                     oks |-> [a \in Artifacts |-> 0] ] :
                   d \in PassDatabases, e \in BOOLEAN,
                   f \in [Artifacts -> PassFirstOKs] }

\* the pass moves on to the artifact after the current one, or returns
PassOn(p) ==
    LET nxt == NextArtifact(p.art, p.db)
    IN  IF nxt = "end" THEN [p EXCEPT !.pc = "done", !.art = "end", !.k = 0]
        ELSE [p EXCEPT !.art = nxt, !.k = 0]
\* PassStep with the pass given up when an artifact's retries run out
PassStepGivesUp ==
    /\ pass.pc = "pass"
    /\ LET a == pass.art
       IN  pass' =
             IF a = "proxy" /\ ~pass.exists THEN PassOn(pass)
             ELSE IF pass.k < MaxAttempts
             THEN IF pass.calls[a] + 1 < pass.firstOK[a]
                  THEN [pass EXCEPT !.calls[a] = @ + 1, !.k = @ + 1]
                  ELSE PassOn([pass EXCEPT !.calls[a] = @ + 1,
                                           !.oks[a] = @ + 1])
             ELSE [pass EXCEPT !.pc = "done", !.art = "end", !.k = 0]
    /\ UNCHANGED << agentVars, retry, pathIn, pathOut, uploadDir, launch >>

\* one step of uploadFunc: `if exist(dpath)` for the proxy log, else one
\* evaluation of the current loop's condition and, if it holds, of its body
PassStep ==
    /\ pass.pc = "pass"
    /\ LET a == pass.art
       IN  pass' =
             IF a = "proxy" /\ ~pass.exists THEN PassOn(pass)
             ELSE IF pass.k < MaxAttempts
             THEN IF pass.calls[a] + 1 < pass.firstOK[a]
                  THEN [pass EXCEPT !.calls[a] = @ + 1, !.k = @ + 1]
                  ELSE PassOn([pass EXCEPT !.calls[a] = @ + 1,
                                           !.oks[a] = @ + 1])
             ELSE PassOn(pass)
    /\ UNCHANGED << agentVars, retry, pathIn, pathOut, uploadDir, launch >>

NextPass == PassStep

SpecPass == InitPass /\ [][NextPass]_vars

----------------------------------------------------------------------------
(* A Start on its own, from the split of the peer list to the spawn of the *)
(* primary: what it does to the package's paths and to the engine's data   *)
(* directory, and the flag list it hands to exec.Command.  Every check of  *)
(* the branch passes.                                                      *)

\* the first index at which sep occurs in s, or 0
RECURSIVE IndexFrom(_, _, _)
IndexFrom(s, sep, i) ==
    IF i + Len(sep) - 1 > Len(s) THEN 0
    ELSE IF SubSeq(s, i, i + Len(sep) - 1) = sep THEN i
    ELSE IndexFrom(s, sep, i + 1)

\* strings.Split(s, sep) for a non-empty sep
RECURSIVE Split(_, _)
Split(s, sep) ==
    LET i == IndexFrom(s, sep, 1)
    IN  IF i = 0 THEN << s >>
        ELSE << SubSeq(s, 1, i - 1) >>
               \o Split(SubSeq(s, i + Len(sep), Len(s)), sep)

\* strings.Join(elems, sep)
RECURSIVE JoinStrings(_, _)
JoinStrings(elems, sep) ==
    IF elems = << >> THEN ""
    ELSE IF Len(elems) = 1 THEN elems[1]
    ELSE elems[1] \o sep \o JoinStrings(Tail(elems), sep)

etcdToken == "etcd_token"
etcdDataDir == "data.etcd"
consulDataDir == "data.consul"
zkWorkingDir == "zookeeper"
zkDataDir == "zookeeper/data.zk"
zkConfigPath == "zookeeper.config"
javaBinaryPath == "/usr/bin/java"

\* the package variables a Start rewrites, as the program starts with them
InitialPaths ==
    [ etcdDataDir |-> etcdDataDir, consulDataDir |-> consulDataDir,
      zkWorkingDir |-> zkWorkingDir, zkDataDir |-> zkDataDir ]

\* if !filepath.HasPrefix(path, wd) { path = filepath.Join(wd, path) }
InWorkingDirectory(path, wd) ==
    IF ~HasPrefix(path, wd) THEN Join(wd, path) ELSE path

\* the package variables after the first statements of a Start
PrefixPaths(paths, wd) ==
    [ etcdDataDir |-> InWorkingDirectory(paths.etcdDataDir, wd),
      consulDataDir |-> InWorkingDirectory(paths.consulDataDir, wd),
      zkWorkingDir |-> InWorkingDirectory(paths.zkWorkingDir, wd),
      zkDataDir |-> InWorkingDirectory(paths.zkDataDir, wd) ]

\* the data directory of an engine kind
DataDirOf(db, paths) ==
    IF IsEtcd(db) THEN paths.etcdDataDir
    ELSE IF db = "Consul" THEN paths.consulDataDir
    ELSE paths.zkDataDir

\* names[i], clientURLs[i], peerURLs[i], members[i] of the etcd branch
EtcdName(i) == "etcd-" \o Itoa(i + 1)
ClientURL(u) == "http://" \o u \o ":2379"
PeerURL(u) == "http://" \o u \o ":2380"
Member(i, u) == EtcdName(i) \o "=" \o PeerURL(u)
\* EtcdFlags with the cluster string built from this node's member only
EtcdFlagsOwnMember(peerIPs, serverIndex, dataDir) ==
    LET clusterN == Len(peerIPs)
        members == [ k \in 1..clusterN |-> Member(k - 1, peerIPs[k]) ]
        clusterStr == JoinStrings(<< members[serverIndex + 1] >>, ",")
    IN  << "--name", EtcdName(serverIndex),
           "--data-dir", dataDir,
           "--listen-client-urls", ClientURL(peerIPs[serverIndex + 1]),
           "--advertise-client-urls", ClientURL(peerIPs[serverIndex + 1]),
           "--listen-peer-urls", PeerURL(peerIPs[serverIndex + 1]),
           "--initial-advertise-peer-urls", PeerURL(peerIPs[serverIndex + 1]),
           "--initial-cluster-token", etcdToken,
           "--initial-cluster", clusterStr,
           "--initial-cluster-state", "new" >>

\* flags of the etcd branch (Go slices are indexed from 0, sequences from 1)
EtcdFlags(peerIPs, serverIndex, dataDir) ==
    LET clusterN == Len(peerIPs)
        members == [ k \in 1..clusterN |-> Member(k - 1, peerIPs[k]) ]
        clusterStr == JoinStrings(members, ",")
    IN  << "--name", EtcdName(serverIndex),
           "--data-dir", dataDir,
           "--listen-client-urls", ClientURL(peerIPs[serverIndex + 1]),
           "--advertise-client-urls", ClientURL(peerIPs[serverIndex + 1]),
           "--listen-peer-urls", PeerURL(peerIPs[serverIndex + 1]),
           "--initial-advertise-peer-urls", PeerURL(peerIPs[serverIndex + 1]),
           "--initial-cluster-token", etcdToken,
           "--initial-cluster", clusterStr,
           "--initial-cluster-state", "new" >>

\* flags of the Consul branch: switch t.req.ServerIndex { case 0: ... }
ConsulFlags(peerIPs, serverIndex, dataDir) ==
    << "agent", "-server", "-data-dir", dataDir,
       "-bind", peerIPs[serverIndex + 1],
       "-client", peerIPs[serverIndex + 1] >>
    \o (IF serverIndex = 0 THEN << "-bootstrap-expect", "3" >>
        ELSE << "-join", peerIPs[1] >>)

\* args[1:] of the ZooKeeper branch
ZooKeeperArgs(workingDir) ==
    << "-c",
       javaBinaryPath
         \o " -cp zookeeper-3.4.9.jar:lib/slf4j-api-1.6.1.jar:lib/slf4j-log4j12-1.6.1.jar:lib/log4j-1.2.16.jar:conf org.apache.zookeeper.server.quorum.QuorumPeerMain "
         \o Join(workingDir, zkConfigPath) >>

\* a directory entry left by an earlier run, and one written by this Start
Old(name) == << name, "old" >>
New(name) == << name, "new" >>

\* a directory that does not exist, and one that holds the given entries
Missing == [ exists |-> FALSE, entries |-> {} ]
Holding(entries) == [ exists |-> TRUE, entries |-> entries ]

\* os.RemoveAll(dir): the directory and all it holds are gone
RemoveAll(disk, d) == [disk EXCEPT ![d] = Missing]

\* os.MkdirAll(dir): creates the directory if missing, keeps what it holds
MkdirAll(disk, d) == [disk EXCEPT ![d].exists = TRUE]

\* toFile(txt, filepath.Join(dir, name)): the file is written anew
ToFile(disk, d, name) ==
    [disk EXCEPT ![d].entries = (@ \ { Old(name) }) \cup { New(name) }]

\* what the Start branch of a database kind does to the data directories
\* before it spawns the engine
PrepareDataDir(disk, db, paths) ==
    IF IsEtcd(db) THEN RemoveAll(disk, paths.etcdDataDir)
    ELSE IF db = "Consul" THEN RemoveAll(disk, paths.consulDataDir)
    ELSE ToFile(MkdirAll(disk, paths.zkDataDir), paths.zkDataDir, "myid")

\* the arguments of exec.Command in the branch of a database kind
LaunchFlags(db, peerIPs, serverIndex, paths) ==
    IF IsEtcd(db) THEN EtcdFlags(peerIPs, serverIndex, paths.etcdDataDir)
    ELSE IF db = "Consul"
    THEN ConsulFlags(peerIPs, serverIndex, paths.consulDataDir)
    ELSE ZooKeeperArgs(paths.zkWorkingDir)

LaunchDatabases == { "etcdv2", "etcdv3", "zetcd", "cetcd", "ZooKeeper", "Consul" }
LaunchAddresses == { "10.0.0.1", "h2" }
\* values of --working-directory (its default is the home directory)
WorkingDirectories == { "/home/a", "/w" }
\* the data directories under a working directory
DataDirs(wd) ==
    { DataDirOf(db, PrefixPaths(InitialPaths, wd)) : db \in LaunchDatabases }
\* what earlier runs left in a data directory
LeftOvers == { Missing, Holding({ Old("wal") }),
               Holding({ Old("myid"), Old("wal") }) }

\* r.PeerIPString for an ordered list of addresses
PeerIPString(peers) == JoinStrings(peers, "___")

InitLaunch ==
    /\ InitAgent
    /\ retry = NoRetry
    /\ pathIn = NoPath
    /\ pathOut = NoDst
    /\ uploadDir = NoDir
    /\ pass = NoPass
    /\ \E n \in 1..MaxPeers :
          launch \in { [ pc |-> "start", db |-> d, peers |-> ps,
                         PeerIPString |-> PeerIPString(ps), ServerIndex |-> i,
                         wd |-> w,
                         paths |-> IF first THEN InitialPaths
                                   ELSE PrefixPaths(InitialPaths, w),
                         before |-> [ x \in DataDirs(w) |-> c ],
                         disk |-> [ x \in DataDirs(w) |-> c ],
                         flags |-> << >> ] :
                       d \in LaunchDatabases, ps \in [1..n -> LaunchAddresses],
                       i \in 0..(n - 1), c \in LeftOvers,
                       w \in WorkingDirectories, first \in BOOLEAN }

\* Transfer for a Start, up to cmd.Start(); paths holds the package
\* variables, which an earlier Start of the same agent has already rewritten
LaunchStart ==
    /\ launch.pc = "start"
    /\ LET peerIPs == Split(launch.PeerIPString, "___")
           paths == PrefixPaths(launch.paths, launch.wd)
       IN  launch' = [launch EXCEPT
               !.pc = "spawned",
               !.paths = paths,
               !.disk = PrepareDataDir(launch.disk, launch.db, paths),
               !.flags = LaunchFlags(launch.db, peerIPs, launch.ServerIndex,
                                     paths)]
    /\ UNCHANGED << agentVars, retry, pathIn, pathOut, uploadDir, pass >>

NextLaunch == LaunchStart

SpecLaunch == InitLaunch /\ [][NextLaunch]_vars

----------------------------------------------------------------------------
(* Claims about the lifecycle controller *)

\* the step in which a Transfer returns to its caller
Returns(op) == ret'.id # ret.id /\ ret'.op = op

\* the step in which Transfer handles an UploadLog command, and its request
HandlesUploadLog ==
    /\ count'.cmds # count.cmds
    /\ \/ rpc'.pc = "sleep" /\ rpc'.op = "UploadLog"
       \/ Returns("UploadLog")
UploadLogRequest == IF rpc'.pc = "sleep" THEN rpc'.r ELSE ret'.r

\* a step taken while an UploadLog is past its key file and has not returned
UploadLogUnderWay == rpc.pc \in {"sleep", "send"} /\ rpc.op = "UploadLog"

\* the monitoring goroutines running an upload pass triggered by a Stop
StopPasses ==
    { m \in DOMAIN monitors :
        monitors[m].pc = "upload" /\ monitors[m].us = "Stop" }

(* C1: a Stop or an UploadLog handled while no process is tracked returns  *)
(* an error; neither returns Success, neither enqueues an upload signal.   *)
IdleCommandsFail ==
    t.cmd = Nil =>
      /\ uploadSig = << >>
      /\ ret.op \in {"Stop", "UploadLog"} => ~ret.ok

(* C2: when a Stop handled after a successful Start finishes, the primary  *)
(* pid that was tracked is signaled and the process handles of Controller  *)
(* State (command handles, pid, log files) are cleared.                    *)
StopSignalsAndClears ==
    [][ (Returns("Stop") /\ monitors # << >>) =>
          /\ t.pid \in signaled'
          /\ t'.cmd = Nil /\ t'.proxyCmd = Nil /\ t'.pid = Nil
          /\ t'.logfile = Nil /\ t'.proxyLogfile = Nil ]_vars

(* C3: in a Stop, the grace wait precedes every signal; every process the  *)
(* Stop found tracked is signaled before the upload pass begins; the       *)
(* engine log and the proxy log are closed before that pass first tries    *)
(* to upload them.                                                         *)
Earlier(tr, i, e) == \E j \in 1..(i - 1) : tr[j] = e

StopOrdered(tr, had) ==
    \A i \in DOMAIN tr :
       /\ tr[i][1] = "kill" => Earlier(tr, i, Ev("sleep", 0))
       /\ tr[i] = Ev("pass", 0) =>
             /\ had.pids # {}
             /\ \A p \in had.pids : Earlier(tr, i, Ev("kill", p))
       /\ tr[i] = Ev("upload", ArtifactNo("db")) =>
             /\ had.logfile # Nil
             /\ Earlier(tr, i, Ev("close", had.logfile))
       /\ (tr[i] = Ev("upload", ArtifactNo("proxy")) /\ had.proxyLogfile # Nil)
             => Earlier(tr, i, Ev("close", had.proxyLogfile))

StopOrder ==
    \A m \in StopPasses :
       /\ StopOrdered(monitors[m].trace, monitors[m].had)
       /\ monitors[m].had.pids \subseteq signaled
       /\ files[monitors[m].had.logfile] = "closed"
       /\ monitors[m].had.proxyLogfile # Nil
             => files[monitors[m].had.proxyLogfile] = "closed"

\* a Stop of a proxy engine whose pass has tried the engine and proxy logs
StopPassWithProxy ==
    \E m \in StopPasses :
       /\ monitors[m].art = "monitor"
       /\ Cardinality(monitors[m].had.pids) = 2
       /\ \E i \in DOMAIN monitors[m].trace :
             monitors[m].trace[i] = Ev("upload", ArtifactNo("proxy"))

(* C4: every Stop or UploadLog answered with Success is eventually         *)
(* followed by an upload pass triggered by it, and by no more than one.    *)
Accepted(c) == ret.id = c /\ ret.ok /\ ret.op \in {"Stop", "UploadLog"}
PassesFor(c) ==
    { m \in DOMAIN monitors : monitors[m].pc = "upload" /\ monitors[m].sig = c }

EveryAcceptedSignalUploads ==
    /\ \A c \in 1..MaxCmds : Accepted(c) ~> (PassesFor(c) # {})
    /\ [](\A c \in 1..MaxCmds : Cardinality(PassesFor(c)) <= 1)

(* C5: an UploadLog changes nothing in Controller State but the project,   *)
(* bucket and sub-directory of the stored request, and handling the same   *)
(* UploadLog a second time leaves Controller State as the first left it.   *)
UploadLogFrame ==
    [][ /\ UploadLogUnderWay => t' = t
        /\ HandlesUploadLog =>
          /\ t' = [t EXCEPT
                !.req.GoogleCloudProjectName =
                      UploadLogRequest.GoogleCloudProjectName,
                !.req.GoogleCloudStorageBucketName =
                      UploadLogRequest.GoogleCloudStorageBucketName,
                !.req.GoogleCloudStorageSubDirectory =
                      UploadLogRequest.GoogleCloudStorageSubDirectory]
          /\ TrackedPids(t') = TrackedPids(t)
          /\ t'.req.Database = t.req.Database
          /\ t'.req.ServerIndex = t.req.ServerIndex
          /\ t'.req.TestName = t.req.TestName
          /\ (ret.op = "UploadLog" /\ ret.r = UploadLogRequest) => t' = t ]_vars

\* the same UploadLog handled twice while a process is tracked, with a
\* destination and a database kind that differ from those of the Start
UploadLogTwice ==
    /\ rpc.pc = "send" /\ rpc.op = "UploadLog"
    /\ ret.op = "UploadLog" /\ ret.ok /\ ret.r = rpc.r
    /\ t.cmd # Nil
    /\ t.req.GoogleCloudProjectName = "p2"
    /\ t.req.Database # rpc.r.Database

(* C6: an UploadLog never halts the monitoring loop: the goroutine that    *)
(* receives an UploadLog signal does not return, neither on receiving it   *)
(* (whatever the outcome of the pass, failure to construct the uploader    *)
(* included) nor during or at the end of the pass, and the UploadLog       *)
(* signals no process.                                                     *)
ReceivesUploadLog(m) ==
    /\ monitors[m].pc = "loop"
    /\ uploadSig # << >> /\ uploadSig' = << >>
    /\ Head(uploadSig).op = "UploadLog"
    /\ monitors'[m] # monitors[m]

UploadLogKeepsLoop ==
    [][/\ \A m \in DOMAIN monitors :
            \/ ReceivesUploadLog(m)
            \/ monitors[m].pc = "upload" /\ monitors[m].us = "UploadLog"
            => monitors'[m].pc # "done"
       /\ (HandlesUploadLog \/ UploadLogUnderWay) => signaled' = signaled]_vars

(* C7: after a successful Start, Controller State tracks exactly two pids  *)
(* for an engine with a proxy and exactly one for any other engine.        *)
StartTracksByKind ==
    (ret.op = "Start" /\ ret.ok /\ ret.id = count.cmds) =>
       Cardinality(TrackedPids(t)) = IF HasProxy(t.req.Database) THEN 2 ELSE 1

(* C8: after a successful Start, one primary process is tracked; its pid   *)
(* is the pid of the process this Start spawned and no pid that            *)
(* Controller State held before this Start.                                *)
StartTracksFreshPrimary ==
    (ret.op = "Start" /\ ret.ok /\ ret.id = count.cmds) =>
       /\ t.cmd # Nil
       /\ t.cmd = ret.spawned
       /\ t.pid = ret.spawned
       /\ t.pid \in DOMAIN procs
       /\ t.pid \notin everTracked

\* a second successful Start
StartedAgain ==
    /\ ret.op = "Start" /\ ret.ok /\ ret.id = count.cmds
    /\ everTracked # {}
    /\ Len(monitors) = 2

----------------------------------------------------------------------------
(* C9: each retry loop makes at most 30 upload attempts; with an uploader  *)
(* that fails on calls 1..N-1 and succeeds on call N <= 30 it leaves after *)
(* exactly N calls, the last one successful; if no call among the first 30 *)
(* succeeds it leaves after exactly 30 failed calls.                       *)
RetryBounded ==
    /\ retry.fails + retry.oks <= MaxAttempts
    /\ retry.oks <= 1
    /\ retry.pc = "exit" =>
         IF retry.firstOK <= MaxAttempts
         THEN retry.fails = retry.firstOK - 1 /\ retry.oks = 1
         ELSE retry.fails = MaxAttempts /\ retry.oks = 0

RetryLastChance ==
    /\ retry.pc = "exit"
    /\ retry.firstOK = MaxAttempts
    /\ retry.fails = MaxAttempts - 1
    /\ retry.oks = 1

(* C10 as stated: for a fixed sub_directory, two distinct triples          *)
(* (test_name, server_index, base_file_name) never yield the same path.    *)
PathInjective ==
    pathOut.done =>
      \A n \in PathTestNames, i \in PathIndexes, b \in PathBaseNames :
         << n, i, b >> # << pathIn.test, pathIn.idx, pathIn.base >>
           => DstPath(pathIn.sub, n, i, b) # pathOut.dst

(* C10 as amended: for a fixed sub_directory and a fixed test_name, two    *)
(* distinct pairs (server_index, base_file_name) whose base names do not   *)
(* start with test_name never yield the same path; a base name that starts *)
(* with test_name is placed under the sub_directory unchanged.             *)
PathInjectivePerTest ==
    pathOut.done =>
      IF HasPrefix(pathIn.base, pathIn.test)
      THEN pathOut.dst = Join(pathIn.sub, pathIn.base)
      ELSE \A i \in PathIndexes, b \in PathBaseNames :
             /\ ~HasPrefix(b, pathIn.test)
             /\ << i, b >> # << pathIn.idx, pathIn.base >>
             => DstPath(pathIn.sub, pathIn.test, i, b) # pathOut.dst

PathDerivedWithIndex ==
    /\ pathOut.done
    /\ pathIn.test = "a" /\ pathIn.idx = 10 /\ pathIn.base = "1-"
    /\ pathIn.sub = "d"
    /\ pathOut.dst = "d/a-11-1-"

----------------------------------------------------------------------------
(* C11: UploadDir spawns one task per file; it returns nil only after all  *)
(* N tasks have reported completion; if a file's upload fails it returns   *)
(* the first error it received, which is the error of a failing file, and  *)
(* never nil (a call that fails before it has the files spawns no task and *)
(* returns that failure); and it does return once a task is at its send on *)
(* errc or every task is at its send.                                      *)
FailingFiles == { i \in DOMAIN uploadDir.fmap : uploadDir.fmap[i] # "none" }

\* a task waits with an error, or no task is still reading or writing
TasksReady ==
    /\ uploadDir.pc \in { "spawn", "loop" }
    /\ \/ \E i \in DOMAIN uploadDir.tasks : uploadDir.tasks[i] = "errc"
       \/ /\ Len(uploadDir.tasks) = Len(uploadDir.fmap)
          /\ \A i \in DOMAIN uploadDir.tasks : uploadDir.tasks[i] # "run"

UploadDirContract ==
    /\ [](/\ Len(uploadDir.tasks) <= Len(uploadDir.fmap)
          /\ uploadDir.pc = "loop" =>
                Len(uploadDir.tasks) = Len(uploadDir.fmap)
          /\ (uploadDir.pc = "returned" /\ EnterFails(uploadDir.pre)) =>
                /\ uploadDir.tasks = << >>
                /\ uploadDir.err = EnterErr(uploadDir.pre)
                /\ uploadDir.err # NilErr
          /\ (uploadDir.pc = "returned" /\ ~EnterFails(uploadDir.pre)) =>
                /\ Len(uploadDir.tasks) = Len(uploadDir.fmap)
                /\ IF FailingFiles = {}
                   THEN /\ uploadDir.err = NilErr
                        /\ uploadDir.recv = DOMAIN uploadDir.fmap
                   ELSE /\ \E i \in FailingFiles :
                              /\ uploadDir.err = TaskErr(i, uploadDir.fmap[i])
                              /\ uploadDir.recv \cap FailingFiles = {i}
                        /\ uploadDir.cnt = Cardinality(uploadDir.recv) - 1)
    /\ TasksReady ~> (uploadDir.pc = "returned")

\* UploadDir has returned an error with one completion received before it
\* and a task still at its send
UploadDirFirstError ==
    /\ uploadDir.pc = "returned"
    /\ uploadDir.err # NilErr
    /\ uploadDir.cnt = 1
    /\ \E i \in DOMAIN uploadDir.tasks : uploadDir.tasks[i] \in {"errc", "donec"}

----------------------------------------------------------------------------
(* C12: a Stop that fails because a tracked process id (primary or proxy)  *)
(* no longer exists returns an error, and the tracked engine log and, if   *)
(* present, proxy log are closed by the time it returns.                   *)
StopClosesLogsOnESRCH ==
    [][ (Returns("Stop") /\ ret'.err = ErrNoProcess) =>
          /\ ~ret'.ok
          /\ t.logfile # Nil => files'[t.logfile] = "closed"
          /\ t.proxyLogfile # Nil => files'[t.proxyLogfile] = "closed" ]_vars

(* C13: a Start that fails with a configuration error (a missing engine or *)
(* proxy executable, an unknown database kind) or a spawn error (primary   *)
(* or proxy) returns an error and leaves Controller State as it was        *)
(* before the command.                                                     *)
FailedStartKeepsState ==
    [][ (Returns("Start") /\ ret'.err \in {ErrConfig, ErrSpawn}) =>
          /\ ~ret'.ok
          /\ t' = t ]_vars

(* C14: a sampling failure never terminates the monitoring loop, the very  *)
(* first sample included: whatever the first sample, taken right after     *)
(* Start, returns, the goroutine goes on to its select loop.               *)
TakesFirstSample(m) ==
    monitors[m].pc = "init" /\ monitors'[m].pc # "init"

SamplingFailureKeepsLoop ==
    [][ \A m \in DOMAIN monitors :
          TakesFirstSample(m) => monitors'[m].pc = "loop" ]_vars

(* C15: while a primary process is tracked as running, here between a      *)
(* Start answered with Success and the next command, exactly one           *)
(* monitoring goroutine is active, never zero and never two or more.       *)
ActiveMonitors == { m \in DOMAIN monitors : monitors[m].pc # "done" }

OneMonitorWhileRunning ==
    (ret.op = "Start" /\ ret.ok /\ ret.id = count.cmds) =>
       Cardinality(ActiveMonitors) = 1

(* C16: a monitoring loop that takes the interrupt branch exits at once:   *)
(* it starts no upload pass, and once it has exited it attempts no upload  *)
(* of any artifact and takes no further sample.                            *)
TakesInterrupt(m) ==
    /\ monitors[m].pc = "loop"
    /\ monitors'[m] # monitors[m]
    /\ uploadSig' = uploadSig

InterruptExitsAtOnce ==
    [][ \A m \in DOMAIN monitors :
          /\ TakesInterrupt(m) =>
                /\ monitors'[m].pc = "done"
                /\ monitors'[m].trace = << >>
          /\ monitors[m].pc = "done" => monitors'[m] = monitors[m] ]_vars

\* the goroutine of the only command so far, a Start, has returned while
\* its process is alive: its first sample is in the monitor CSV and no
\* signal was sent on uploadSig
InterruptedWhileRunning ==
    /\ count.cmds = 1 /\ ret.op = "Start" /\ ret.ok
    /\ Len(monitors) = 1
    /\ monitors[1].pc = "done"
    /\ monitorLog
    /\ procs[monitors[1].pid] = "alive"
    /\ uploadSig = << >>

----------------------------------------------------------------------------
(* C17: within one upload pass the artifacts are processed serially in the *)
(* order engine log, proxy log (proxy engines only, and only if the file   *)
(* exists), monitoring table, controller log: the retry loop of an         *)
(* artifact has finished, by a success or after 30 failures, before the    *)
(* next artifact is first attempted, and neither an artifact whose retries *)
(* run out nor a missing proxy log keeps the later artifacts from being    *)
(* attempted.                                                              *)
PassOrder(a) ==
    CASE a = "db" -> 1 [] a = "proxy" -> 2 [] a = "monitor" -> 3
      [] a = "agent" -> 4 [] a = "end" -> 5

\* the calls a finished retry loop has made
LoopFinished(a) ==
    IF pass.firstOK[a] <= MaxAttempts
    THEN pass.calls[a] = pass.firstOK[a] /\ pass.oks[a] = 1
    ELSE pass.calls[a] = MaxAttempts /\ pass.oks[a] = 0

ProxyLogUploaded == HasProxy(pass.db) /\ pass.exists

PassSerial ==
    \A a \in Artifacts :
       /\ PassOrder(a) > PassOrder(pass.art) => pass.calls[a] = 0
       /\ PassOrder(a) < PassOrder(pass.art) =>
             IF a = "proxy" /\ ~ProxyLogUploaded
             THEN pass.calls[a] = 0
             ELSE LoopFinished(a)
       /\ pass.calls[a] > 0 => PassOrder(a) <= PassOrder(pass.art)

\* a pass of a proxy engine has ended after the engine log ran out of
\* retries and the proxy log was missing
PassAfterExhaustion ==
    /\ pass.pc = "done"
    /\ HasProxy(pass.db) /\ ~pass.exists
    /\ pass.calls["db"] = MaxAttempts /\ pass.oks["db"] = 0
    /\ pass.oks["monitor"] = 1 /\ pass.calls["agent"] = MaxAttempts

----------------------------------------------------------------------------
(* C18: for every engine kind, when Start spawns the engine its data       *)
(* directory holds nothing that an earlier run left there.                 *)
FreshDataDir ==
    launch.pc = "spawned" =>
       launch.disk[DataDirOf(launch.db, launch.paths)].entries
          \cap launch.before[DataDirOf(launch.db, launch.paths)].entries = {}

(* C19: for a Start of etcdv2, etcdv3, zetcd or cetcd with N peers and     *)
(* server index i in 0..N-1, the flag list has --name etcd-(i+1), the      *)
(* listen and advertise client URLs http://peer_i:2379, the listen and     *)
(* initial-advertise peer URLs http://peer_i:2380, an --initial-cluster    *)
(* that is the comma-joined list of exactly N pairs etcd-k=http://peer_k:  *)
(* 2380 in peer order, and --initial-cluster-state new.                    *)
FlagValue(flags, name) ==
    flags[(CHOOSE j \in DOMAIN flags : flags[j] = name) + 1]

EtcdFlagsFromPeers ==
    (launch.pc = "spawned" /\ IsEtcd(launch.db)) =>
       LET N == Len(launch.peers)
           own == launch.peers[launch.ServerIndex + 1]
           F == launch.flags
       IN  /\ \A name \in { "--name", "--listen-client-urls",
                             "--advertise-client-urls", "--listen-peer-urls",
                             "--initial-advertise-peer-urls",
                             "--initial-cluster", "--initial-cluster-state" } :
                  Cardinality({ j \in DOMAIN F : F[j] = name }) = 1
           /\ FlagValue(F, "--name") = "etcd-" \o Itoa(launch.ServerIndex + 1)
           /\ FlagValue(F, "--listen-client-urls") = "http://" \o own \o ":2379"
           /\ FlagValue(F, "--advertise-client-urls") = "http://" \o own \o ":2379"
           /\ FlagValue(F, "--listen-peer-urls") = "http://" \o own \o ":2380"
           /\ FlagValue(F, "--initial-advertise-peer-urls")
                 = "http://" \o own \o ":2380"
           /\ Split(FlagValue(F, "--initial-cluster"), ",")
                 = [ k \in 1..N |->
                       "etcd-" \o Itoa(k) \o "=http://" \o launch.peers[k] \o ":2380" ]
           /\ FlagValue(F, "--initial-cluster-state") = "new"

\* the second node of a three-node etcd cluster has been launched
EtcdSecondOfThree ==
    /\ launch.pc = "spawned"
    /\ IsEtcd(launch.db)
    /\ Len(launch.peers) = 3
    /\ launch.ServerIndex = 1
    /\ launch.peers[1] # launch.peers[2]

----------------------------------------------------------------------------
(* C20: every Transfer call eventually returns: a Stop or an UploadLog     *)
(* that has reached its send on uploadSig gets past it, whether or not a   *)
(* monitoring loop is there to receive and whether or not an earlier       *)
(* signal is still in the channel.                                         *)
TransferReturns ==
    (rpc.pc # "idle") ~> (rpc.pc = "idle")

----------------------------------------------------------------------------
(* C21: an upload signal is received only by the monitoring loop that the  *)
(* most recent Start before the signal's command spawned; a loop spawned   *)
(* by a later Start never receives a signal left over from an earlier      *)
(* command.                                                                *)
ReceivesSignal(m) ==
    /\ monitors[m].pc = "loop"
    /\ uploadSig # << >> /\ uploadSig' = Tail(uploadSig)
    /\ monitors'[m] # monitors[m]

SignalReachesOwnLoop ==
    [][ \A m \in DOMAIN monitors :
          ReceivesSignal(m) => Head(uploadSig).mon = m ]_vars

(* C22: a Stop signals only process ids spawned by the most recent         *)
(* successful Start, never a process id that an earlier Start left in      *)
(* Controller State.                                                       *)
HandlesStop ==
    /\ rpc.pc = "sleep" /\ rpc.op = "Stop"
    /\ rpc'.pc # "sleep"

\* the process ids the Stop of this step sends SIGTERM to
SignaledByStop ==
    IF rpc'.pc = "send"
    THEN { q \in DOMAIN procs :
             \E i \in DOMAIN rpc'.trace : rpc'.trace[i] = Ev("kill", q) }
    ELSE signaled' \ signaled

\* the process ids spawned by the most recent successful Start
LatestRun ==
    IF monitors = << >> THEN {} ELSE monitors[Len(monitors)].run

StopSignalsLatestRunOnly ==
    [][ HandlesStop => SignaledByStop \subseteq LatestRun ]_vars

(* C23: every process that a Start spawned, that is still running and that *)
(* no Stop has signaled is tracked in Controller State, so that a later    *)
(* Stop can signal it.                                                     *)
SpawnedStayTracked ==
    \A p \in DOMAIN procs :
       (procs[p] = "alive" /\ p \notin signaled) => p \in TrackedPids(t)

====
